---- MODULE Spec2Model ----
(***************************************************************************)
(* Model of the two feed services of the 60s API (ServiceWikiNews and      *)
(* ServiceReadhub): the #fetch cache policy of each service, with its one  *)
(* suspension point at the outbound request, and the WikiNews extraction   *)
(* pipeline (#extractNewsContent, #extractCategoryItems,                   *)
(* #processItemLinks, #cleanHtml) and the Readhub article scan.            *)
(*                                                                         *)
(* A JavaScript string is modelled as a sequence of lexemes, the units the *)
(* code's patterns tell apart: a tag, a run of text, or a whole anchor.    *)
(* Concatenation is \o, so that what a conversion adds or removes shows.   *)
(***************************************************************************)
EXTENDS Integers, Sequences, FiniteSets, TLC

VARIABLES
    svc,            \* the endpoint the requests of this run go to
    now,            \* Date.now(), in milliseconds
    wCache,         \* ServiceWikiNews.#cache
    wCacheDate,     \* ServiceWikiNews.#cacheDate
    wLastFetchTime, \* ServiceWikiNews.#lastFetchTime
    rCache,         \* ServiceReadhub.#cache
    rCacheTime,     \* ServiceReadhub.#cacheTime
    req,            \* the fetch() invocations in flight, per request slot
    resp,           \* what the fetch() that returned last gave its caller
    nCalls,         \* fetch() invocations so far
    nTicks,         \* clock advances so far
    html,           \* the markup given to the extractor
    out,            \* what the extractor returned
    phase           \* "input" before the extractor ran, "done" after

vars == <<svc, now, wCache, wCacheDate, wLastFetchTime, rCache, rCacheTime,
          req, resp, nCalls, nTicks, html, out, phase>>

fetchVars == <<svc, now, wCache, wCacheDate, wLastFetchTime, rCache, rCacheTime,
               req, resp, nCalls, nTicks>>

extractVars == <<html, out, phase>>

-----------------------------------------------------------------------------
(* Bounds of the model *)

NReq == 2
MaxCalls == 3
MaxTicks == 2
MaxLen == 4
MaxItemLen == 3

-----------------------------------------------------------------------------
(* Lexemes *)

Tag(s) == [k |-> "tag", s |-> s]
Txt(s) == [k |-> "txt", s |-> s]
Anchor(ext, href, label) ==
    [k |-> "a", ext |-> ext, href |-> href, label |-> label]

DIVOPEN == Tag("<div class=\"current-events-content description\">")
DIVCLOSE == Tag("</div>")
PB == Tag("<p><b>")
BCLOSE == Tag("</b>")
PCLOSE == Tag("</p>")
LI == Tag("<li>")
LICLOSE == Tag("</li>")
SP == Txt(" ")
WORD == Txt("x")
AMP == Txt("&amp;")

IsSpace(c) == c = " "

\* the bullet character U+2022 that #cleanHtml writes
BULLET == "U+2022"

RECURSIVE IndexFrom(_, _, _)
\* String.prototype.indexOf at lexeme granularity: the first position >= i
\* of lexeme x in s, 0 when there is none.
IndexFrom(s, x, i) ==
    IF i > Len(s) THEN 0
    ELSE IF s[i] = x THEN i
    ELSE IndexFrom(s, x, i + 1)

IndexOf(s, x) == IndexFrom(s, x, 1)

RECURSIVE TrimLeft(_)
TrimLeft(s) ==
    IF s = <<>> THEN <<>>
    ELSE IF IsSpace(Head(s)) THEN TrimLeft(Tail(s))
    ELSE s

RECURSIVE TrimRight(_)
TrimRight(s) ==
    IF s = <<>> THEN <<>>
    ELSE IF IsSpace(s[Len(s)]) THEN TrimRight(SubSeq(s, 1, Len(s) - 1))
    ELSE s

\* String.prototype.trim on a text (a sequence of character runs)
Trim(s) == TrimRight(TrimLeft(s))

RECURSIVE TrimLexLeft(_)
TrimLexLeft(s) ==
    IF s = <<>> THEN <<>>
    ELSE IF Head(s) = SP THEN TrimLexLeft(Tail(s))
    ELSE s

RECURSIVE TrimLexRight(_)
TrimLexRight(s) ==
    IF s = <<>> THEN <<>>
    ELSE IF s[Len(s)] = SP THEN TrimLexRight(SubSeq(s, 1, Len(s) - 1))
    ELSE s

\* String.prototype.trim on markup (a sequence of lexemes)
TrimLex(s) == TrimLexRight(TrimLexLeft(s))

RECURSIVE Split(_, _)
\* String.prototype.split on a separator lexeme
Split(s, sep) ==
    LET i == IndexOf(s, sep)
    IN  IF i = 0 THEN <<s>>
        ELSE <<SubSeq(s, 1, i - 1)>> \o Split(SubSeq(s, i + 1, Len(s)), sep)

RECURSIVE Join(_, _)
\* Array.prototype.join of texts
Join(ss, sep) ==
    IF ss = <<>> THEN <<>>
    ELSE IF Len(ss) = 1 THEN ss[1]
    ELSE ss[1] \o sep \o Join(Tail(ss), sep)

Includes(ss, x) == \E i \in 1..Len(ss) : ss[i] = x

-----------------------------------------------------------------------------
(* ServiceWikiNews: text cleaning *)

RECURSIVE LiToBullets(_)
\* .replace(/<li[^>]*>([\s\S]*?)<\/li>/g, 'U+2022 $1 '): each <li>, up to the first
\* </li> after it, becomes a bullet, its content and a space.  (The <ul>
\* rewriting before it needs a <ul> lexeme, which no input here has.)
LiToBullets(s) ==
    LET i == IndexOf(s, LI)
        j == IF i = 0 THEN 0 ELSE IndexFrom(s, LICLOSE, i + 1)
    IN  IF j = 0 THEN s
        ELSE SubSeq(s, 1, i - 1) \o <<Txt(BULLET), SP>> \o SubSeq(s, i + 1, j - 1)
             \o <<SP>> \o LiToBullets(SubSeq(s, j + 1, Len(s)))

RECURSIVE StripTags(_)
\* .replace(/<[^>]*?>/g, ''): tags go, and of an anchor its label stays
StripTags(s) ==
    IF s = <<>> THEN <<>>
    ELSE LET c == Head(s)
         IN  (IF c.k = "tag" THEN <<>>
              ELSE IF c.k = "a" THEN c.label
              ELSE <<c.s>>) \o StripTags(Tail(s))

DecodeEntity(c) ==
    IF c = "&amp;" THEN "&"
    ELSE IF c = "&lt;" THEN "<"
    ELSE IF c = "&gt;" THEN ">"
    ELSE IF c = "&quot;" THEN "\""
    ELSE IF c = "&#39;" THEN "'"
    ELSE IF c = "&ndash;" THEN "U+2013"
    ELSE IF c = "&mdash;" THEN "U+2014"
    ELSE IF c = "&nbsp;" THEN " "
    ELSE c

DecodeEntities(t) == [i \in 1..Len(t) |-> DecodeEntity(t[i])]

RECURSIVE CollapseSpaces(_)
\* .replace(/\s+/g, ' ')
CollapseSpaces(t) ==
    IF Len(t) < 2 THEN t
    ELSE IF IsSpace(t[1]) /\ IsSpace(t[2]) THEN CollapseSpaces(Tail(t))
    ELSE <<t[1]>> \o CollapseSpaces(Tail(t))

RECURSIVE MergeBullets(_)
\* .replace(/U+2022 U+2022/g, 'U+2022'), matches taken left to right without overlap
MergeBullets(t) ==
    IF Len(t) < 3 THEN t
    ELSE IF t[1] = BULLET /\ t[2] = " " /\ t[3] = BULLET
         THEN <<BULLET>> \o MergeBullets(SubSeq(t, 4, Len(t)))
    ELSE <<t[1]>> \o MergeBullets(Tail(t))

RECURSIVE TightenPunctuation(_)
\* .replace(/\s+:/g, ':').replace(/\s+\./g, '.'): the white space before a
\* ':' or a '.' goes
TightenPunctuation(t) ==
    IF Len(t) < 2 THEN t
    ELSE IF IsSpace(t[1]) /\ TrimLeft(t) # <<>> /\ Head(TrimLeft(t)) \in {":", "."}
         THEN TightenPunctuation(TrimLeft(t))
    ELSE <<t[1]>> \o TightenPunctuation(Tail(t))

RECURSIVE DropListIntroBullet(_)
\* .replace(/: U+2022/g, ': ')
DropListIntroBullet(t) ==
    IF Len(t) < 3 THEN t
    ELSE IF t[1] = ":" /\ t[2] = " " /\ t[3] = BULLET
         THEN <<":", " ">> \o DropListIntroBullet(SubSeq(t, 4, Len(t)))
    ELSE <<t[1]>> \o DropListIntroBullet(Tail(t))

\* ServiceWikiNews.#cleanHtml
cleanHtml(s) ==
    Trim(TightenPunctuation(DropListIntroBullet(MergeBullets(
        CollapseSpaces(DecodeEntities(StripTags(LiToBullets(s))))))))

-----------------------------------------------------------------------------
(* ServiceWikiNews: link annotations *)

WikiOrigin == "https://en.wikipedia.org"

\* `${text} (${href})`
LinkEntry(label, href) == label \o <<" ", "(">> \o href \o <<")">>

RECURSIVE ExternalLinks(_)
\* the first replace of #processItemLinks: every external-flagged anchor
\* with a label and a target adds an entry, with no look at earlier entries
ExternalLinks(s) ==
    IF s = <<>> THEN <<>>
    ELSE LET c == Head(s)
         IN  (IF c.k = "a" /\ c.ext /\ c.label # <<>> /\ c.href # <<>>
              THEN <<LinkEntry(c.label, c.href)>>
              ELSE <<>>) \o ExternalLinks(Tail(s))

\* ... and every external-flagged anchor is cut out of the markup
WithoutExternals(s) == SelectSeq(s, LAMBDA c : ~(c.k = "a" /\ c.ext))

AbsoluteHref(href) ==
    IF href # <<>> /\ Head(href) = "/" THEN <<WikiOrigin>> \o href ELSE href

RECURSIVE PlainLinks(_, _)
\* the second replace: the entries of the remaining anchors, each once
PlainLinks(s, links) ==
    IF s = <<>> THEN links
    ELSE LET c == Head(s)
             entry == LinkEntry(c.label, AbsoluteHref(c.href))
         IN  IF c.k = "a" /\ c.href # <<>> /\ c.label # <<>>
                  /\ ~Includes(links, entry)
             THEN PlainLinks(Tail(s), Append(links, entry))
             ELSE PlainLinks(Tail(s), links)

RECURSIVE AnchorsToText(_)
\* the second replace returns the anchor's text in the anchor's place
AnchorsToText(s) ==
    IF s = <<>> THEN <<>>
    ELSE LET c == Head(s)
         IN  (IF c.k = "a" THEN [i \in 1..Len(c.label) |-> Txt(c.label[i])]
              ELSE <<c>>) \o AnchorsToText(Tail(s))

\* ServiceWikiNews.#processItemLinks
processItemLinks(s) ==
    LET htmlWithoutExternals == WithoutExternals(s)
    IN  [text |-> AnchorsToText(htmlWithoutExternals),
         links |-> PlainLinks(htmlWithoutExternals, <<>>) \o ExternalLinks(s)]

\* the body of the while loop of #extractCategoryItems for one <li> match:
\* the text of the item, <<>> when the item is dropped
itemText(raw) ==
    LET itemHtml == TrimLex(raw)
        pl == processItemLinks(itemHtml)
        cleaned == cleanHtml(pl.text)
        finalText == IF Len(pl.links) > 0
                     THEN cleaned \o <<" ", "[">> \o Join(pl.links, <<",", " ">>)
                          \o <<"]">>
                     ELSE cleaned
    IN  IF raw = <<>> \/ itemHtml = <<>> THEN <<>> ELSE Trim(finalText)

RECURSIVE ListItems(_)
\* the exec loop over /<li>([\s\S]*?)<\/li>/g
ListItems(s) ==
    LET i == IndexOf(s, LI)
        j == IF i = 0 THEN 0 ELSE IndexFrom(s, LICLOSE, i + 1)
        t == itemText(SubSeq(s, i + 1, j - 1))
    IN  IF j = 0 THEN <<>>
        ELSE (IF t # <<>> THEN <<[text |-> t]>> ELSE <<>>)
             \o ListItems(SubSeq(s, j + 1, Len(s)))

\* ServiceWikiNews.#extractCategoryItems
extractCategoryItems(sectionContent) ==
    LET items == ListItems(sectionContent)
        plainContent == cleanHtml(sectionContent)
    IN  IF Len(items) = 0 /\ Trim(plainContent) # <<>>
        THEN <<[text |-> Trim(plainContent)]>>
        ELSE items

-----------------------------------------------------------------------------
(* ServiceWikiNews: category extraction *)

Category(title, items) == [title |-> title, items |-> items]

NoSectionsFound ==
    <<Category(<<Txt("Error")>>,
               <<[text |-> <<"No news content sections found in the HTML">>]>>)>>

NoCategoriesFound ==
    <<Category(<<Txt("Uncategorized")>>,
               <<[text |-> <<"No categories found in content">>]>>)>>

NothingParsed ==
    <<Category(<<Txt("Uncategorized")>>,
               <<[text |-> <<"No news items could be parsed from the source">>]>>)>>

\* html.match(/<div class="current-events-content description">([\s\S]*?)<\/div>/g)[0]:
\* from the first opening marker to the first </div> after it, both included;
\* <<>> when there is no match
firstContentDiv(s) ==
    LET i == IndexOf(s, DIVOPEN)
        j == IF i = 0 THEN 0 ELSE IndexFrom(s, DIVCLOSE, i + 1)
    IN  IF j = 0 THEN <<>> ELSE SubSeq(s, i, j)

\* lines 106-114: the text before the first heading
uncategorized(section) ==
    LET items == extractCategoryItems(section)
    IN  IF TrimLex(section) # <<>> /\ Len(items) > 0
        THEN <<Category(<<Txt("Uncategorized")>>, items)>>
        ELSE <<>>

\* the body of the for loop of #extractNewsContent for one section
namedCategory(section) ==
    LET titleEndIndex == IndexOf(section, BCLOSE)
        categoryTitle == TrimLex(SubSeq(section, 1, titleEndIndex - 1))
        paraEnd == IndexOf(section, PCLOSE)
        items == extractCategoryItems(SubSeq(section, paraEnd + 1, Len(section)))
    IN  IF titleEndIndex = 0 \/ paraEnd = 0 \/ Len(items) = 0 THEN <<>>
        ELSE <<Category(categoryTitle, items)>>

RECURSIVE namedCategories(_)
namedCategories(sections) ==
    IF sections = <<>> THEN <<>>
    ELSE namedCategory(Head(sections)) \o namedCategories(Tail(sections))

\* #extractNewsContent without the guard of line 90 for "no match"
extractNewsContent_noMatchGuard(s) ==
    LET div == firstContentDiv(s)
        categorySections == Split(div, PB)
        categories == uncategorized(categorySections[1])
                      \o namedCategories(Tail(categorySections))
    IN  IF Len(categorySections) <= 1 THEN NoCategoriesFound
        ELSE IF Len(categories) = 0 THEN NothingParsed
        ELSE categories

\* ServiceWikiNews.#extractNewsContent
extractNewsContent(s) ==
    LET div == firstContentDiv(s)
        categorySections == Split(div, PB)
        categories == uncategorized(categorySections[1])
                      \o namedCategories(Tail(categorySections))
    IN  IF div = <<>> THEN NoSectionsFound
        ELSE IF Len(categorySections) <= 1 THEN NoCategoriesFound
        ELSE IF Len(categories) = 0 THEN NothingParsed
        ELSE categories

-----------------------------------------------------------------------------
(* ServiceReadhub: article scan *)

ReadhubOrigin == "https://readhub.cn"

\* /<a\s+[^>]*?href="(\/topic\/[^"]+)"[^>]*?>([^<]+)<\/a>/g matches the anchor
isArticle(c) ==
    /\ c.k = "a"
    /\ Len(c.href) >= 2
    /\ Head(c.href) = "/topic/"
    /\ c.label # <<>>

RECURSIVE articles(_)
\* the while loop of ServiceReadhub.#fetch, lines 325-332
articles(s) ==
    IF s = <<>> THEN <<>>
    ELSE LET c == Head(s)
             link == <<ReadhubOrigin>> \o c.href
             title == Trim(c.label)
         IN  (IF isArticle(c) /\ title # <<>> /\ link # <<>>
              THEN <<[title |-> title, link |-> link]>>
              ELSE <<>>) \o articles(Tail(s))

-----------------------------------------------------------------------------
(* Inputs *)

ExtA == Anchor(TRUE, <<"http://e/1">>, <<"E">>)
ExtB == Anchor(TRUE, <<"http://e/2">>, <<"F">>)
ExtNoText == Anchor(TRUE, <<"http://e/1">>, <<>>)
PlainRel == Anchor(FALSE, <<"/", "wiki/", "W">>, <<"W">>)
PlainAbs == Anchor(FALSE, <<"http://p/1">>, <<"P">>)
PlainNoHref == Anchor(FALSE, <<>>, <<"W">>)
Topic == Anchor(FALSE, <<"/", "topic/", "1">>, <<"T">>)
TopicBlank == Anchor(FALSE, <<"/", "topic/", "2">>, <<" ">>)

SeqsUpTo(S, n) == UNION {[1..m -> S] : m \in 0..n}

RECURSIVE Flatten(_)
Flatten(ss) == IF ss = <<>> THEN <<>> ELSE Head(ss) \o Flatten(Tail(ss))

\* the fragments a page is put together from
PageChunks ==
    { <<DIVOPEN>>, <<DIVCLOSE>>,
      <<PB, WORD, BCLOSE, PCLOSE>>,
      <<PB, WORD>>,
      <<LI, WORD, SP, PlainRel, ExtA, LICLOSE>>,
      <<LI, SP, LICLOSE>>,
      <<WORD>>, <<SP, AMP>> }

Pages == {Flatten(cs) : cs \in SeqsUpTo(PageChunks, MaxLen)}

\* what one <li> may hold
ItemLexemes ==
    {WORD, SP, ExtA, ExtB, ExtNoText, PlainRel, PlainAbs, PlainNoHref}

ItemFragments == SeqsUpTo(ItemLexemes, MaxItemLen)

-----------------------------------------------------------------------------
(* The extractor on its own: one input, one run *)

InitExtract ==
    /\ html \in Pages \cup ItemFragments
    /\ out = <<>>
    /\ phase = "input"
    /\ svc = "wikinews"
    /\ now = 0
    /\ wCache = [null |-> TRUE] /\ wCacheDate = <<>> /\ wLastFetchTime = 0
    /\ rCache = [null |-> TRUE] /\ rCacheTime = 0
    /\ req = <<>> /\ resp = [upstream |-> "none", status |-> "none"]
    /\ nCalls = 0 /\ nTicks = 0

\* #extractNewsContent(html), as #fetch calls it on the response body
ExtractNews ==
    /\ phase = "input"
    /\ out' = extractNewsContent(html)
    /\ phase' = "news"
    /\ UNCHANGED <<html, fetchVars>>

\* one <li> of #extractCategoryItems: its item text
ExtractItem ==
    /\ phase = "input"
    /\ html \in ItemFragments
    /\ out' = itemText(html)
    /\ phase' = "item"
    /\ UNCHANGED <<html, fetchVars>>

NextExtract == ExtractNews \/ ExtractItem

SpecExtract == InitExtract /\ [][NextExtract]_vars

-----------------------------------------------------------------------------
(* Time *)

Minute == 60 * 1000
DayMs == 24 * 60 * 60 * 1000

\* ServiceReadhub.#cacheDuration
cacheDuration == 30 * 60 * 1000

\* how far the clock moves between two events
Steps == {Minute, 29 * Minute, 12 * 60 * Minute}

\* Common.localeDate(now).replace(/\//g, '-'): the calendar date of a
\* timestamp in the service's fixed time zone, as a string
localeDate(t) == <<t \div DayMs>>

\* Common.localeTime(now): date and time of day, to the second
localeTime(t) == <<t \div DayMs, (t % DayMs) \div 1000>>

-----------------------------------------------------------------------------
(* The two services *)

Reqs == 1..NReq

Null == [null |-> TRUE]
Idle == [pc |-> "idle"]
NoResp == [upstream |-> "none", status |-> "none"]

\* the bodies the upstream may answer with
WikiBodies ==
    { <<>>,
      <<DIVOPEN, PB, WORD, BCLOSE, PCLOSE, LI, WORD, SP, PlainRel, LICLOSE,
        DIVCLOSE>> }

ReadhubBodies == { <<>>, <<Topic, TopicBlank>> }

\* the slot a new fetch() invocation takes: the first one that is free
FreeSlot(r) == req[r] = Idle /\ \A q \in Reqs : q < r => req[q] # Idle

\* a fetch() suspended at its await: the `now` it read, the requests it issued
Awaiting(service, t) ==
    [pc |-> "await", svc |-> service, now |-> t, calls |-> 1]

\* what a fetch() gives its caller: the Feed, or the error it throws, with
\* how the upstream answered ("none" when it was not asked) and the body
Returned(service, t, calls, upstream, status, feed, body) ==
    [svc |-> service, now |-> t, calls |-> calls, upstream |-> upstream,
     status |-> status, feed |-> feed, body |-> body]

Services == {"wikinews", "readhub"}

\* serviceWikiNews and serviceReadhub are two objects that share no field, so a
\* behaviour follows the requests to one of them; svc says which
InitFetch ==
    /\ svc \in Services
    /\ now = 0
    /\ wCache = Null /\ wCacheDate = <<>> /\ wLastFetchTime = 0
    /\ rCache = Null /\ rCacheTime = 0
    /\ req = [r \in Reqs |-> Idle]
    /\ resp = NoResp
    /\ nCalls = 0 /\ nTicks = 0
    /\ html = <<>> /\ out = <<>> /\ phase = "idle"

\* the clock moves on (forward only: Date.now() is taken as non-decreasing)
Tick(d) ==
    /\ nTicks < MaxTicks
    /\ now' = now + d
    /\ nTicks' = nTicks + 1
    /\ UNCHANGED <<svc, wCache, wCacheDate, wLastFetchTime, rCache, rCacheTime,
                   req, resp, nCalls, extractVars>>

(* ServiceWikiNews.#fetch *)

\* line 38 comparing #cacheDate with the date of the page asked for (dateStr)
wikiCacheValid_targetDate(t) ==
    wCache # Null /\ wCacheDate = localeDate(t - DayMs)

\* line 38 with the elapsed-time comparison of the other service
wikiCacheValid_elapsed(t) ==
    wCache # Null /\ t - wLastFetchTime < cacheDuration

\* line 38: this.#cache && this.#cacheDate === today
wikiCacheValid(t) == wCache # Null /\ wCacheDate = localeDate(t)

\* lines 43-67: the Feed built from a response body
wikiData(t, body) ==
    LET targetDay == (t - DayMs) \div DayMs
    IN  [date |-> <<targetDay>>,
         news |-> extractNewsContent(body),
         source_url |-> <<"https://en.wikipedia.org/wiki/Portal:Current_events/",
                          targetDay>>,
         updated |-> localeTime(t),
         updated_at |-> t]

\* lines 35-40: the cache answers
WikiFetchCached(r) ==
    /\ svc = "wikinews"
    /\ FreeSlot(r)
    /\ nCalls < MaxCalls
    /\ wikiCacheValid(now)
    /\ resp' = Returned("wikinews", now, 0, "none", "ok", wCache, <<>>)
    /\ nCalls' = nCalls + 1
    /\ UNCHANGED <<svc, now, nTicks, wCache, wCacheDate, wLastFetchTime, rCache,
                   rCacheTime, req, extractVars>>

\* lines 35-52: no valid entry, the request goes out and #fetch is suspended
WikiFetchRequest(r) ==
    /\ svc = "wikinews"
    /\ FreeSlot(r)
    /\ nCalls < MaxCalls
    /\ ~wikiCacheValid(now)
    /\ req' = [req EXCEPT ![r] = Awaiting("wikinews", now)]
    /\ nCalls' = nCalls + 1
    /\ UNCHANGED <<svc, now, nTicks, wCache, wCacheDate, wLastFetchTime, rCache,
                   rCacheTime, resp, extractVars>>

\* lines 54-73: a 2xx response with its body
WikiFetchOk(r, body) ==
    /\ req[r].pc = "await" /\ req[r].svc = "wikinews"
    /\ LET data == wikiData(req[r].now, body)
       IN  /\ wCache' = data
           /\ wCacheDate' = localeDate(req[r].now)
           /\ wLastFetchTime' = req[r].now
           /\ resp' = Returned("wikinews", req[r].now, req[r].calls, "ok", "ok",
                            data, body)
    /\ req' = [req EXCEPT ![r] = Idle]
    /\ UNCHANGED <<svc, now, nTicks, nCalls, rCache, rCacheTime, extractVars>>

\* lines 74-82: what the catch block gives the caller
wikiFallback(r) ==
    IF wCache # Null
    THEN Returned("wikinews", req[r].now, req[r].calls, "failed", "ok",
                  wCache, <<>>)
    ELSE Returned("wikinews", req[r].now, req[r].calls, "failed", "error",
                  Null, <<>>)

\* lines 52-56, 74-82: the request fails, or the status is not 2xx
WikiFetchFailed(r) ==
    /\ req[r].pc = "await" /\ req[r].svc = "wikinews"
    /\ resp' = wikiFallback(r)
    /\ req' = [req EXCEPT ![r] = Idle]
    /\ UNCHANGED <<svc, now, nTicks, nCalls, wCache, wCacheDate, wLastFetchTime,
                   rCache, rCacheTime, extractVars>>

(* ServiceReadhub.#fetch *)

\* line 305 with <= for <
readhubCacheValid_inclusive(t) ==
    rCache # Null /\ t - rCacheTime <= cacheDuration

\* line 305: this.#cache && now - this.#cacheTime < this.#cacheDuration
readhubCacheValid(t) == rCache # Null /\ t - rCacheTime < cacheDuration

\* lines 316-342: the Feed built from a response body
readhubData(t, body) ==
    [date |-> localeDate(t),
     news |-> articles(body),
     tip |-> "tip",
     updated |-> localeTime(t),
     updated_at |-> t]

\* lines 302-307: the cache answers
ReadhubFetchCached(r) ==
    /\ svc = "readhub"
    /\ FreeSlot(r)
    /\ nCalls < MaxCalls
    /\ readhubCacheValid(now)
    /\ resp' = Returned("readhub", now, 0, "none", "ok", rCache, <<>>)
    /\ nCalls' = nCalls + 1
    /\ UNCHANGED <<svc, now, nTicks, wCache, wCacheDate, wLastFetchTime, rCache,
                   rCacheTime, req, extractVars>>

\* lines 302-310: no valid entry, the request goes out and #fetch is suspended
ReadhubFetchRequest(r) ==
    /\ svc = "readhub"
    /\ FreeSlot(r)
    /\ nCalls < MaxCalls
    /\ ~readhubCacheValid(now)
    /\ req' = [req EXCEPT ![r] = Awaiting("readhub", now)]
    /\ nCalls' = nCalls + 1
    /\ UNCHANGED <<svc, now, nTicks, wCache, wCacheDate, wLastFetchTime, rCache,
                   rCacheTime, resp, extractVars>>

\* lines 344-346 stamping the entry with the time the response arrived
ReadhubFetchOk_stampedOnArrival(r, body) ==
    /\ req[r].pc = "await" /\ req[r].svc = "readhub"
    /\ LET data == readhubData(req[r].now, body)
       IN  /\ rCache' = data
           /\ rCacheTime' = now
           /\ resp' = Returned("readhub", req[r].now, req[r].calls, "ok", "ok",
                            data, body)
    /\ req' = [req EXCEPT ![r] = Idle]
    /\ UNCHANGED <<svc, now, nTicks, nCalls, wCache, wCacheDate, wLastFetchTime,
                   extractVars>>

\* lines 312-348: a 2xx response with its body
ReadhubFetchOk(r, body) ==
    /\ req[r].pc = "await" /\ req[r].svc = "readhub"
    /\ LET data == readhubData(req[r].now, body)
       IN  /\ rCache' = data
           /\ rCacheTime' = req[r].now
           /\ resp' = Returned("readhub", req[r].now, req[r].calls, "ok", "ok",
                            data, body)
    /\ req' = [req EXCEPT ![r] = Idle]
    /\ UNCHANGED <<svc, now, nTicks, nCalls, wCache, wCacheDate, wLastFetchTime,
                   extractVars>>

\* the catch block without lines 353-355
readhubFallback_alwaysThrows(r) ==
    Returned("readhub", req[r].now, req[r].calls, "failed", "error", Null, <<>>)

\* lines 349-358: what the catch block gives the caller
readhubFallback(r) ==
    IF rCache # Null
    THEN Returned("readhub", req[r].now, req[r].calls, "failed", "ok",
                  rCache, <<>>)
    ELSE Returned("readhub", req[r].now, req[r].calls, "failed", "error",
                  Null, <<>>)

\* lines 310-314, 349-358: the request fails, or the status is not 2xx
ReadhubFetchFailed(r) ==
    /\ req[r].pc = "await" /\ req[r].svc = "readhub"
    /\ resp' = readhubFallback(r)
    /\ req' = [req EXCEPT ![r] = Idle]
    /\ UNCHANGED <<svc, now, nTicks, nCalls, wCache, wCacheDate, wLastFetchTime,
                   rCache, rCacheTime, extractVars>>

Next ==
    \/ \E d \in Steps : Tick(d)
    \/ \E r \in Reqs : WikiFetchCached(r)
    \/ \E r \in Reqs : WikiFetchRequest(r)
    \/ \E r \in Reqs, body \in WikiBodies : WikiFetchOk(r, body)
    \/ \E r \in Reqs : WikiFetchFailed(r)
    \/ \E r \in Reqs : ReadhubFetchCached(r)
    \/ \E r \in Reqs : ReadhubFetchRequest(r)
    \/ \E r \in Reqs, body \in ReadhubBodies : ReadhubFetchOk(r, body)
    \/ \E r \in Reqs : ReadhubFetchFailed(r)

Spec == InitFetch /\ [][Next]_vars

-----------------------------------------------------------------------------
(* What the claims speak about *)

\* the cache entry of the endpoint of this behaviour, and the fields kept
\* with it
Cache == IF svc = "wikinews" THEN wCache ELSE rCache

cacheVars == <<wCache, wCacheDate, wLastFetchTime, rCache, rCacheTime>>

\* the validity key of the entry matches the time t
KeyMatches(t) ==
    IF svc = "wikinews"
    THEN wCacheDate = <<t \div DayMs>>
    ELSE t - rCacheTime < 30 * Minute

\* this step is a call of fetch()
Called == nCalls' = nCalls + 1

\* this step ends the fetch() of slot r, which had asked the upstream
Resumed(r) == req[r].pc = "await" /\ req'[r] = Idle

\* this step ends a fetch() without the upstream having been asked
AnsweredFromCache ==
    /\ Called /\ req' = req
    /\ resp'.status = "ok" /\ resp'.calls = 0 /\ resp'.upstream = "none"
    /\ resp'.now = now

\* this step sends a fetch() to the upstream
AskedUpstream ==
    \E r \in Reqs : req[r] = Idle /\ req'[r].pc = "await" /\ req'[r].calls = 1
                    /\ req'[r].now = now

AllIdle == \A r \in Reqs : req[r] = Idle

\* C1: a fetch() called while an entry exists and its validity key matches
\* `now` asks the upstream nothing, returns the stored Feed and leaves the
\* entry and its key as they were
C1_CacheHit ==
    [][(Called /\ Cache # Null /\ KeyMatches(now))
         => (AnsweredFromCache /\ resp'.feed = Cache /\ UNCHANGED cacheVars)]_vars

C1_Witness ==
    /\ resp.status = "ok" /\ resp.calls = 0
    /\ resp.feed = Cache /\ resp.feed.updated_at < resp.now

\* C2: when the upstream fails, fetch() throws if there is no entry and
\* returns the entry's Feed if there is one (stale or not); the failure leaves
\* the entry and its key alone; and once there is an entry, there is one ever
\* after and no fetch() throws
C2_FailureFallsBack ==
    [][/\ \A r \in Reqs :
            (Resumed(r) /\ resp'.upstream = "failed")
              => /\ UNCHANGED cacheVars
                 /\ IF Cache = Null
                    THEN resp'.status = "error"
                    ELSE resp'.status = "ok" /\ resp'.feed = Cache
       /\ (Cache # Null \/ resp.status = "ok")
            => /\ Cache' # Null
               /\ (Called \/ \E r \in Reqs : Resumed(r)) => resp'.status = "ok"
      ]_vars

\* a stale entry served after a failure, and before it a failure with no entry
C2_Witness ==
    /\ resp.upstream = "failed" /\ resp.status = "ok"
    /\ resp.feed = Cache
    /\ ~KeyMatches(resp.now)

\* C3: Readhub, with t0 the fetch time of the stored Feed: a fetch() at a time
\* t with t - t0 < 30 min is answered from the cache, one with t - t0 >= 30 min
\* asks the upstream
C3_DurationWindow ==
    [][(svc = "readhub" /\ Called /\ rCache # Null)
         => IF now - rCache.updated_at < 30 * Minute
            THEN AnsweredFromCache /\ resp'.feed = rCache
            ELSE AskedUpstream]_vars

\* a request 29 minutes after the fetch, answered from the cache
C3_Witness ==
    /\ resp.status = "ok" /\ resp.svc = "readhub" /\ resp.calls = 0
    /\ resp.now - resp.feed.updated_at = 29 * Minute

\* C4: WikiNews, with D the calendar date of the fetch of the stored Feed: a
\* fetch() whose `now` falls on D is answered from the cache however long
\* after the fetch, and one whose date differs asks the upstream
C4_SameDate ==
    [][(svc = "wikinews" /\ Called /\ wCache # Null)
         => IF localeDate(now) = localeDate(wCache.updated_at)
            THEN AnsweredFromCache /\ resp'.feed = wCache
            ELSE AskedUpstream]_vars

\* a request twelve hours after the fetch, on the same date, from the cache
C4_Witness ==
    /\ resp.status = "ok" /\ resp.svc = "wikinews" /\ resp.calls = 0
    /\ resp.now - resp.feed.updated_at >= 12 * 60 * Minute

\* C5: no Feed that fetch() returns, or stores, has an empty news list
C5_FeedNeverEmpty ==
    /\ resp.status = "ok" => Len(resp.feed.news) >= 1
    /\ Cache # Null => Len(Cache.news) >= 1

\* C6: with requests overlapping: a fetch() throws only if its own request
\* failed and there is no entry; a fetch() whose request succeeded returns the
\* Feed of its own response and `now`, and the entry is then that Feed; and
\* the entry and its validity key always come from the same fetch
C6_KeyOfEntry ==
    /\ wCache # Null => /\ wCacheDate = localeDate(wCache.updated_at)
                        /\ wLastFetchTime = wCache.updated_at
    /\ rCache # Null => rCacheTime = rCache.updated_at

OwnFeed(r) ==
    /\ resp'.feed.updated_at = req[r].now
    /\ resp'.feed.news = IF svc = "wikinews"
                         THEN extractNewsContent(resp'.body)
                         ELSE articles(resp'.body)

C6_LastWriterWins ==
    /\ []C6_KeyOfEntry
    /\ [][\A r \in Reqs :
            Resumed(r)
              => /\ resp'.status = "error"
                      => resp'.upstream = "failed" /\ Cache = Null
                 /\ resp'.upstream = "ok"
                      => /\ resp'.status = "ok"
                         /\ OwnFeed(r)
                         /\ Cache' = resp'.feed]_vars

\* one of two overlapping requests has written the entry, the other, which
\* read its `now` no later, is still waiting for its response
C6_Witness ==
    /\ resp.upstream = "ok" /\ Cache = resp.feed
    /\ \E r \in Reqs : req[r].pc = "await" /\ req[r].now <= resp.now

\* C7: a fetch() asks the upstream at most once, and after an upstream
\* attempt, failed or not, a later request in the same validity window (no
\* other being in flight) does not ask the upstream again
SameWindow(t0, t) ==
    IF svc = "wikinews"
    THEN localeDate(t0) = localeDate(t)
    ELSE t - t0 < 30 * Minute

C7_RetriesRateLimited ==
    [][/\ \A r \in Reqs : req'[r].pc = "await" => req'[r].calls <= 1
       /\ (Called /\ AllIdle /\ resp.upstream # "none"
             /\ SameWindow(resp.now, now))
            => ~AskedUpstream]_vars

\* C10: from one replacement of the entry to the next, the fetch time it
\* holds never decreases
C10_FetchTimeMonotonic ==
    [][(Cache # Null /\ Cache' # Null)
         => Cache'.updated_at >= Cache.updated_at]_vars

-----------------------------------------------------------------------------
(* Claims about the extractor *)

HasMarker(s) == \E i \in 1..Len(s) : s[i] = DIVOPEN

\* C8: the extractor always returns a list of categories, and for markup
\* without the section marker that list is one category titled "Error" with
\* one item, whose text is not empty
C8_NoMarker ==
    phase = "news"
      => /\ Len(out) >= 1
         /\ \A i \in 1..Len(out) : DOMAIN out[i] = {"title", "items"}
         /\ ~HasMarker(html)
              => /\ Len(out) = 1
                 /\ out[1].title = <<Txt("Error")>>
                 /\ Len(out[1].items) = 1
                 /\ out[1].items[1].text # <<>>

\* markup with list items and a heading but no section marker
C8_Witness ==
    /\ phase = "news" /\ ~HasMarker(html)
    /\ \E i \in 1..Len(html) : html[i] = LI
    /\ \E i \in 1..Len(html) : html[i] = PB
    /\ out[1].title = <<Txt("Error")>>

IsAnchor(c) == c.k = "a"

\* the entries of the bracketed list an item text ends with
Annotations(t) ==
    LET open == IndexOf(t, "[")
        parts == Split(SubSeq(t, open + 1, Len(t) - 1), ",")
    IN  IF open = 0 \/ t[Len(t)] # "]" THEN <<>>
        ELSE [i \in 1..Len(parts) |-> TrimLeft(parts[i])]

StartsWith(t, p) == Len(t) >= Len(p) /\ SubSeq(t, 1, Len(p)) = p

\* C9: the text of an item with external-flagged and plain anchors (each with
\* a label and a target) ends with one bracketed list that has an entry for
\* every anchor's label and no entry twice
C9_AnnotationsUnique ==
    (/\ phase = "item"
     /\ \E i \in 1..Len(html) : IsAnchor(html[i]) /\ html[i].ext
     /\ \E i \in 1..Len(html) : IsAnchor(html[i]) /\ ~html[i].ext
     /\ \A i \in 1..Len(html) :
            IsAnchor(html[i]) => html[i].label # <<>> /\ html[i].href # <<>>)
      => LET entries == Annotations(out)
         IN  /\ Len(entries) >= 1
             /\ Cardinality({i \in 1..Len(out) : out[i] = "["}) = 1
             /\ \A i \in 1..Len(html) :
                    IsAnchor(html[i])
                      => \E j \in 1..Len(entries) :
                            StartsWith(entries[j], html[i].label \o <<" ", "(">>)
             /\ \A i, j \in 1..Len(entries) : i # j => entries[i] # entries[j]

====
